---- MODULE Spec2Model ----
(***************************************************************************)
(* Model of the Scrape-to-PDF crawler of src/scraper.py: the URL helpers   *)
(* (urllib's urlsplit / urlunsplit / urldefrag / parse_qsl / urlencode as  *)
(* _strip_tracking uses them), the Scrapy crawl driven by SiteToPDFSpider  *)
(* and the /scrape endpoint that wraps one crawl run.                      *)
(*                                                                         *)
(* Strings are sequences of one-character strings, so that parsing,        *)
(* percent-decoding and re-encoding are computed and not assumed.          *)
(***************************************************************************)
EXTENDS Integers, Sequences, FiniteSets, TLC

(***************************************************************************)
(* Characters: printable ASCII, code 32 .. 126 (code 96 is a placeholder). *)
(***************************************************************************)
AsciiTable ==
  << " ", "!", "\"", "#", "$", "%", "&", "'", "(", ")", "*", "+", ",", "-", ".", "/",
     "0", "1", "2", "3", "4", "5", "6", "7", "8", "9", ":", ";", "<", "=", ">", "?",
     "@", "A", "B", "C", "D", "E", "F", "G", "H", "I", "J", "K", "L", "M", "N", "O",
     "P", "Q", "R", "S", "T", "U", "V", "W", "X", "Y", "Z", "[", "\\", "]", "^", "_",
     "(grave)", "a", "b", "c", "d", "e", "f", "g", "h", "i", "j", "k", "l", "m", "n", "o",
     "p", "q", "r", "s", "t", "u", "v", "w", "x", "y", "z", "{", "|", "}", "~" >>

CharSet == { AsciiTable[i] : i \in DOMAIN AsciiTable }

CodeOf == [ c \in CharSet |-> 31 + (CHOOSE i \in DOMAIN AsciiTable : AsciiTable[i] = c) ]

CharOf(n) == AsciiTable[n - 31]

IsUpper(c) == CodeOf[c] >= 65 /\ CodeOf[c] <= 90
IsLowerC(c) == CodeOf[c] >= 97 /\ CodeOf[c] <= 122
IsDigit(c) == CodeOf[c] >= 48 /\ CodeOf[c] <= 57
IsAlpha(c) == IsUpper(c) \/ IsLowerC(c)

\* str.lower() on one character
LowerChar(c) == IF IsUpper(c) THEN CharOf(CodeOf[c] + 32) ELSE c

\* str.lower()
Lower(s) == [ i \in DOMAIN s |-> LowerChar(s[i]) ]

\* s[i:] and s[:i] with Python's 0-based offsets
From(s, i) == IF i >= Len(s) THEN << >> ELSE SubSeq(s, i + 1, Len(s))
Upto(s, i) == IF i <= 0 THEN << >> ELSE SubSeq(s, 1, IF i > Len(s) THEN Len(s) ELSE i)

\* str.startswith(p)
StartsWith(s, p) == Len(s) >= Len(p) /\ SubSeq(s, 1, Len(p)) = p

\* str.endswith(p)
EndsWith(s, p) == Len(s) >= Len(p) /\ SubSeq(s, Len(s) - Len(p) + 1, Len(s)) = p

\* str.find(c) for a one-character c: 0-based offset of the first c, or -1
Find(s, c) ==
  IF \E i \in DOMAIN s : s[i] = c
  THEN (CHOOSE i \in DOMAIN s : s[i] = c /\ \A j \in 1..(i - 1) : s[j] # c) - 1
  ELSE -1

\* offset of the first character of s that is in the set cs, or Len(s)
FindAny(s, cs) ==
  IF \E i \in DOMAIN s : s[i] \in cs
  THEN (CHOOSE i \in DOMAIN s : s[i] \in cs /\ \A j \in 1..(i - 1) : s[j] \notin cs) - 1
  ELSE Len(s)

\* str.replace(a, b) for one-character a and b
ReplaceChar(s, a, b) == [ i \in DOMAIN s |-> IF s[i] = a THEN b ELSE s[i] ]

\* str.partition(c) once the offset i of c is known: <<before, found, after>>
PartitionAt(s, i) ==
  IF i = -1 THEN << s, FALSE, << >> >> ELSE << Upto(s, i), TRUE, From(s, i + 1) >>

\* str.partition(c) for a one-character c
Partition(s, c) == PartitionAt(s, Find(s, c))

\* str.split(c): the list of pieces between occurrences of c
RECURSIVE Split(_, _)
RECURSIVE SplitParts(_, _)
SplitParts(pt, c) == IF pt[2] THEN << pt[1] >> \o Split(pt[3], c) ELSE << pt[1] >>

Split(s, c) == SplitParts(Partition(s, c), c)

\* c.join(parts)
RECURSIVE Join(_, _)
Join(parts, c) ==
  IF parts = << >> THEN << >>
  ELSE IF Len(parts) = 1 THEN parts[1]
  ELSE parts[1] \o << c >> \o Join(Tail(parts), c)

(***************************************************************************)
(* urllib.parse, as imported at src/scraper.py:46.  Each step of a         *)
(* function hands its result to the next step as an argument.              *)
(***************************************************************************)
\* urllib's scheme_chars: letters, digits and "+-."
IsSchemeChar(c) == IsAlpha(c) \/ IsDigit(c) \/ c \in {"+", "-", "."}

\* the schemes of urllib's uses_netloc that occur in HTTP crawling
UsesNetloc == { <<"h","t","t","p">>, <<"h","t","t","p","s">> }

\* urlsplit, scheme: i is url.find(":"); the result is <<scheme, rest>>
SchemeAt(u, i) ==
  IF i > 0 /\ IsAlpha(u[1]) /\ \A j \in 1..i : IsSchemeChar(u[j])
  THEN << Lower(Upto(u, i)), From(u, i + 1) >>
  ELSE << << >>, u >>

SplitScheme(u) == SchemeAt(u, Find(u, ":"))

\* urlsplit, netloc (_splitnetloc): t is what follows "//"; <<netloc, rest>>
NetlocAt(t, d) == << Upto(t, d), From(t, d) >>

SplitNetloc(r) ==
  IF Upto(r, 2) = <<"/", "/">>
  THEN NetlocAt(From(r, 2), FindAny(From(r, 2), {"/", "?", "#"}))
  ELSE << << >>, r >>

\* urlsplit, the result: pq is the partition of the rest at "?"
SplitResult(scheme, netloc, pq, fragment) ==
  [scheme |-> scheme, netloc |-> netloc, path |-> pq[1], query |-> pq[3],
   fragment |-> fragment]

\* urlsplit, query: pf is the partition of the rest at "#"
SplitAfterFragment(scheme, netloc, pf) ==
  SplitResult(scheme, netloc, Partition(pf[1], "?"), pf[3])

\* urlsplit, fragment: sn is <<netloc, rest>>
SplitAfterNetloc(scheme, sn) == SplitAfterFragment(scheme, sn[1], Partition(sn[2], "#"))

\* urlsplit, after the scheme: ss is <<scheme, rest>>
SplitAfterScheme(ss) == SplitAfterNetloc(ss[1], SplitNetloc(ss[2]))

\* urlsplit(u): scheme, netloc, path, query, fragment
urlsplit(u) == SplitAfterScheme(SplitScheme(u))

\* urlunsplit, first step: "//" and the netloc before the path
WithNetloc(scheme, netloc, path) ==
  IF netloc # << >> \/ (scheme # << >> /\ scheme \in UsesNetloc
                        /\ Upto(path, 2) # <<"/", "/">>)
  THEN <<"/", "/">> \o netloc
       \o (IF path # << >> /\ path[1] # "/" THEN <<"/">> \o path ELSE path)
  ELSE path

WithScheme(scheme, u) == IF scheme # << >> THEN scheme \o <<":">> \o u ELSE u

WithQuery(u, query) == IF query # << >> THEN u \o <<"?">> \o query ELSE u

WithFragment(u, fragment) == IF fragment # << >> THEN u \o <<"#">> \o fragment ELSE u

\* urlunsplit((scheme, netloc, path, query, fragment))
urlunsplit(scheme, netloc, path, query, fragment) ==
  WithFragment(WithQuery(WithScheme(scheme, WithNetloc(scheme, netloc, path)), query),
               fragment)

\* urldefrag, the rebuilt URL: the split parts with the fragment left out
DefragParts(sp) == urlunsplit(sp.scheme, sp.netloc, sp.path, sp.query, << >>)

\* urldefrag(u)[0]: the URL is rebuilt only when it contains "#"
urldefrag(u) == IF Find(u, "#") # -1 THEN DefragParts(urlsplit(u)) ELSE u

HexDigits == <<"0","1","2","3","4","5","6","7","8","9","A","B","C","D","E","F">>

IsHex(c) == IsDigit(c) \/ (CodeOf[c] >= 65 /\ CodeOf[c] <= 70) \/ (CodeOf[c] >= 97 /\ CodeOf[c] <= 102)

HexVal(c) ==
  IF IsDigit(c) THEN CodeOf[c] - 48
  ELSE IF IsUpper(c) THEN CodeOf[c] - 55 ELSE CodeOf[c] - 87

\* s starts with a %XX escape
IsEscape(s) == Len(s) >= 3 /\ s[1] = "%" /\ IsHex(s[2]) /\ IsHex(s[3])

EscapeCode(s) == 16 * HexVal(s[2]) + HexVal(s[3])

\* unquote(s): %XX escapes decoded (printable ASCII; any other escape stays as written)
RECURSIVE unquote(_)
RECURSIVE UnquoteEscape(_, _)
UnquoteEscape(s, n) ==
  IF n >= 32 /\ n <= 126 /\ n # 96
  THEN << CharOf(n) >> \o unquote(From(s, 3))
  ELSE << s[1] >> \o unquote(Tail(s))

unquote(s) ==
  IF s = << >> THEN << >>
  ELSE IF IsEscape(s) THEN UnquoteEscape(s, EscapeCode(s))
  ELSE << s[1] >> \o unquote(Tail(s))

\* quote_plus on one character: unreserved characters stay, space becomes "+"
QuoteChar(c) ==
  IF IsAlpha(c) \/ IsDigit(c) \/ c \in {"_", ".", "-", "~"} THEN << c >>
  ELSE IF c = " " THEN << "+" >>
  ELSE << "%", HexDigits[(CodeOf[c] \div 16) + 1], HexDigits[(CodeOf[c] % 16) + 1] >>

\* quote_plus(s)
RECURSIVE quote_plus(_)
quote_plus(s) == IF s = << >> THEN << >> ELSE QuoteChar(s[1]) \o quote_plus(Tail(s))

\* one name=value field of parse_qsl(..., keep_blank_values=True), split at
\* its first "=": <<name, value>>
FieldOf(pt) ==
  << unquote(ReplaceChar(pt[1], "+", " ")), unquote(ReplaceChar(pt[3], "+", " ")) >>

ParseField(f) == FieldOf(Partition(f, "="))

\* the fields of a list of raw fields, empty fields skipped
RECURSIVE ParseFields(_)
ParseFields(fs) ==
  IF fs = << >> THEN << >>
  ELSE IF fs[1] = << >> THEN ParseFields(Tail(fs))
  ELSE << ParseField(fs[1]) >> \o ParseFields(Tail(fs))

\* parse_qsl(qs, keep_blank_values=True)
parse_qsl(qs) == IF qs = << >> THEN << >> ELSE ParseFields(Split(qs, "&"))

\* urlencode(q) for a list of (name, value) pairs
urlencode(q) ==
  Join([ i \in DOMAIN q |-> quote_plus(q[i][1]) \o <<"=">> \o quote_plus(q[i][2]) ], "&")

(***************************************************************************)
(* _strip_tracking, src/scraper.py:150-154                                 *)
(***************************************************************************)
\* the tuple handed to str.startswith at src/scraper.py:153
TrackingPrefixes ==
  { <<"u","t","m","_">>, <<"f","b","c","l","i","d">>, <<"g","c","l","i","d">>,
    <<"m","c","_","e","i","d">> }

\* a key test that looks for the utm_ prefix only
IsTrackingKeyUtmOnly(k) == StartsWith(Lower(k), <<"u", "t", "m", "_">>)

\* k.lower().startswith(("utm_", "fbclid", "gclid", "mc_eid"))
IsTrackingKey(k) == \E p \in TrackingPrefixes : StartsWith(Lower(k), p)

\* a filter that leaves out the first tracking pair only
RECURSIVE KeptPairsFirstOnly(_)
KeptPairsFirstOnly(q) ==
  IF q = << >> THEN << >>
  ELSE IF IsTrackingKey(q[1][1]) THEN Tail(q)
  ELSE << q[1] >> \o KeptPairsFirstOnly(Tail(q))

\* the list comprehension of src/scraper.py:152-153
RECURSIVE KeptPairs(_)
KeptPairs(q) ==
  IF q = << >> THEN << >>
  ELSE (IF ~IsTrackingKey(q[1][1]) THEN << q[1] >> ELSE << >>) \o KeptPairs(Tail(q))

\* src/scraper.py:152-154 on the split URL
StripParts(sp) ==
  urlunsplit(sp.scheme, sp.netloc, sp.path, urlencode(KeptPairs(parse_qsl(sp.query))), << >>)

_strip_tracking(u) == StripParts(urlsplit(u))

(***************************************************************************)
(* same_site_allowed_domains, src/scraper.py:127-141                       *)
(***************************************************************************)
\* urlparse(u).hostname: the netloc without userinfo and port, lowercased
HostOfInfo(ps) == Lower(Split(ps[Len(ps)], ":")[1])

Hostname(u) == HostOfInfo(Split(urlsplit(u).netloc, "@"))

Www == <<"w", "w", "w", ".">>

\* src/scraper.py:135
Naked(host) == IF StartsWith(host, Www) THEN From(host, 4) ELSE host

\* a host whose last two labels are never added
ApexOfNone(parts) == {}

\* src/scraper.py:138-140: the last two labels of a host of more than two
ApexOf(parts) ==
  IF Len(parts) > 2
  THEN { parts[Len(parts) - 1] \o <<".">> \o parts[Len(parts)] }
  ELSE {}

\* src/scraper.py:133-141
AllowedWith(host, naked) == {host, naked, Www \o naked} \cup ApexOf(Split(naked, "."))

\* src/scraper.py:130-141
AllowedFor(host) == IF host = << >> THEN {} ELSE AllowedWith(host, Naked(host))

same_site_allowed_domains(base_url) == AllowedFor(Hostname(base_url))

(***************************************************************************)
(* sanitize_filename_from_url, src/scraper.py:143-148                      *)
(***************************************************************************)
IsAlnum(c) == IsAlpha(c) \/ IsDigit(c)

\* re.sub(r"[^a-zA-Z0-9]+", "-", s)
RECURSIVE Slug(_)
Slug(s) ==
  IF s = << >> THEN << >>
  ELSE IF IsAlnum(s[1]) THEN << s[1] >> \o Slug(Tail(s))
  ELSE IF Len(s) >= 2 /\ ~IsAlnum(s[2]) THEN Slug(Tail(s))
  ELSE << "-" >> \o Slug(Tail(s))

\* str.strip("-")
RECURSIVE StripDash(_)
StripDash(s) ==
  IF s = << >> THEN s
  ELSE IF s[1] = "-" THEN StripDash(Tail(s))
  ELSE IF s[Len(s)] = "-" THEN StripDash(Upto(s, Len(s) - 1))
  ELSE s

StemLen == 80

\* f"{stem or 'page'}-{h}.pdf".  The md5 digest h is kept as the string it
\* digests: equal inputs give equal digests, and digests of different inputs
\* are taken to differ.
FilenameOfParts(stem, clean_url) ==
  [stem |-> IF stem = << >> THEN <<"p", "a", "g", "e">> ELSE stem, h |-> clean_url]

\* src/scraper.py:146-148
FilenameWith(clean_url, parsed) ==
  FilenameOfParts(StripDash(Upto(Slug(parsed.netloc \o parsed.path), StemLen)), clean_url)

\* src/scraper.py:145-148
FilenameFor(clean_url) == FilenameWith(clean_url, urlsplit(clean_url))

sanitize_filename_from_url(url) == FilenameFor(urldefrag(url))

(***************************************************************************)
(* The site that is crawled: the start URL and the anchors its pages may   *)
(* carry.  A fetched page shows any set of them.                           *)
(***************************************************************************)
Http == <<"h", "t", "t", "p", ":", "/", "/">>
HostA == <<"a", ".", "i", "o">>

StartURL == Http \o HostA \o <<"/">>

LinkTop == StartURL \o <<"#", "t">>
LinkP == Http \o HostA \o <<"/", "p", "?", "u", "t", "m", "_", "a", "=", "1">>
LinkSub == Http \o <<"s", ".">> \o HostA \o <<"/">>
LinkOff == Http \o <<"b", ".", "i", "o", "/">>

RawLinks == {LinkTop, LinkP, LinkSub, LinkOff}

LinkSets == SUBSET RawLinks

\* CrawlRequest.depth: Field(1, ge=0, le=5)
MaxDepthArg == 5

(***************************************************************************)
(* SiteToPDFSpider: settings and link extraction, src/scraper.py:337-398   *)
(***************************************************************************)
RETRY_TIMES == 4
CONCURRENT_REQUESTS == 8
DEPTH_PRIORITY == 1

\* RetryMiddleware lowers the priority of a retried request by one
RetryPriorityAdjust == 0 - 1

DenyExtensions ==
  { <<".", "7", "z">>, <<".", "z", "i", "p">>, <<".", "r", "a", "r">>,
    <<".", "p", "d", "f">>, <<".", "j", "p", "g">>, <<".", "j", "p", "e", "g">>,
    <<".", "p", "n", "g">>, <<".", "g", "i", "f">>, <<".", "s", "v", "g">>,
    <<".", "w", "e", "b", "p">>, <<".", "a", "v", "i", "f">>, <<".", "m", "p", "4">>,
    <<".", "m", "p", "3">>, <<".", "a", "v", "i">>, <<".", "m", "o", "v">>,
    <<".", "w", "m", "v">>, <<".", "m", "k", "v">>, <<".", "i", "s", "o">> }

\* posixpath.splitext(path)[1]: the suffix of the last path segment from its
\* last dot on, unless that dot leads the segment
ExtAt(last, dots) ==
  IF dots = {} THEN << >>
  ELSE From(last, (CHOOSE i \in dots : \A j \in dots : j <= i) - 1)

ExtOf(last) ==
  ExtAt(last, { i \in DOMAIN last : last[i] = "." /\ \E j \in 1..(i - 1) : last[j] # "." })

ExtOfSegments(segs) == ExtOf(segs[Len(segs)])

PathExt(path) == ExtOfSegments(Split(path, "/"))

\* LinkExtractor(deny_extensions=...): url_has_any_extension
HasDeniedExtension(u) == Lower(PathExt(urlsplit(u).path)) \in DenyExtensions

\* url_is_from_any_domain on the lowercased netloc
HostFromAny(host, domains) ==
  /\ host # << >>
  /\ \E d \in domains : host = Lower(d) \/ EndsWith(host, <<".">> \o Lower(d))

\* LinkExtractor(allow_domains=...): url_is_from_any_domain, which accepts a
\* host that equals an allowed domain or is a subdomain of one
UrlIsFromAnyDomain(u, domains) == HostFromAny(Lower(urlsplit(u).netloc), domains)

\* a link extractor without allow_domains: only the extension is looked at
LinkAllowedAnyDomain(u, domains) == ~HasDeniedExtension(u)

\* LinkExtractor._link_allowed for the extractor built in __init__
LinkAllowed(u, domains) ==
  /\ (domains # {} => UrlIsFromAnyDomain(u, domains))
  /\ ~HasDeniedExtension(u)

\* src/scraper.py:451-452: the URL a discovered link is followed under
Canonical(u) == _strip_tracking(urldefrag(u))

\* the key of Scrapy's duplicate filter: the URL without fragment, host lowercased
FingerprintParts(sp) ==
  urlunsplit(sp.scheme, Lower(sp.netloc),
             IF sp.path = << >> THEN <<"/">> ELSE sp.path, sp.query, << >>)

RequestFingerprint(u) == FingerprintParts(urlsplit(u))

\* scrapy.Request as the scheduler sees it.  first: the request of
\* start_requests (errback_first attached, dont_filter=True)
Req(u, d, first) ==
  [url |-> u, depth |-> d, priority |-> 0 - d * DEPTH_PRIORITY, retries |-> 0, first |-> first]

\* every URL a request can carry
AllURLs == {StartURL} \cup { Canonical(l) : l \in RawLinks }

\* The helpers above tabulated over the URLs of the site, so that each is
\* computed once per URL
CanonicalOf == [l \in RawLinks |-> Canonical(l)]
FingerprintOf == [u \in AllURLs |-> RequestFingerprint(u)]
FilenameOf == [u \in AllURLs |-> sanitize_filename_from_url(u)]
StartAllowed == same_site_allowed_domains(StartURL)
AllowedOf ==
  [ds \in {{}, StartAllowed} |->
     [l \in RawLinks |-> LinkAllowed(l, ds)]]

\* outcomes of a fetch that did not deliver a page
Failures == {"TimeoutError", "HttpError"}

\* failures RetryMiddleware re-schedules (timeouts, connection errors, 5xx)
Retryable(f) == f = "TimeoutError"

(***************************************************************************)
(* State of one POST /scrape: the endpoint, the crawl it awaits, and the   *)
(* history the properties refer to.                                        *)
(***************************************************************************)
VARIABLES
  phase,            \* where scrape() is: "idle", "crawling", "drained", "aborted", "responded", "done"
  depth,            \* req.depth, handed to the crawl as DEPTH_LIMIT
  ended,            \* how the crawl ended: "no", "drained", "aborted"
  workdir,          \* the directory of tempfile.mkdtemp exists
  allowed_domains,  \* SiteToPDFSpider.allowed_domains
  queue,            \* requests waiting in the scheduler
  inflight,         \* requests handed to the downloader
  seen,             \* fingerprints the duplicate filter has recorded
  docs,             \* the PDF files of outdir: filename -> content
  response,         \* what scrape() answers: "none", "200", "500", "504"
  archive,          \* the names inside result.zip, or "none"
  dispatched,       \* history: per URL, how often a fresh (not retried) request was sent
  refused,          \* history: the anchors the link extractor left out
  failed,           \* history: the kinds of request whose fetch finally failed ("start", "followed")
  unwritten,        \* history: make_pdf raised for some page
  urls,             \* URL helpers on their own: the two URLs handed in
  canon,            \* their canonical forms (urldefrag, then _strip_tracking)
  stripped,         \* _strip_tracking(urls[1])
  restripped,       \* _strip_tracking(stripped)
  applied,          \* which of the three have been computed
  seed,             \* same_site_allowed_domains on its own: the base URL handed in, in parts
  names,            \* sanitize_filename_from_url on its own: the filenames of urls
  document_html,    \* visible_text_from_html on its own: the element of the page's body
  root,             \* the parsed tree as the function works on it
  text,             \* the text it returns, as the texts of the elements it is made of
  step,             \* how far visible_text_from_html has come: 0 .. 4
  paragraph,        \* the chunking loop of make_pdf on its own: the paragraph handed in
  para,             \* what is left of it
  pieces,           \* the pieces rendered so far
  pc                \* where the loop is: "idle", "strip", "loop", "done"

vars == << phase, depth, ended, workdir, allowed_domains, queue, inflight, seen, docs, response,
           archive, dispatched, refused, failed, unwritten,
           urls, canon, stripped, restripped, applied, seed, names,
           document_html, root, text, step, paragraph, para, pieces, pc >>

runVars == << phase, depth, ended, workdir, allowed_domains, queue, inflight, seen, docs, response,
              archive, dispatched, refused, failed, unwritten >>

canonVars == << urls, canon, stripped, restripped, applied >>

scopeVars == << seed >>

nameVars == << names >>

textVars == << document_html, root, text, step >>

chunkVars == << paragraph, para, pieces, pc >>

pureVars == << canonVars, scopeVars, nameVars, textVars, chunkVars >>

crawlVars == << queue, inflight, seen, docs, dispatched, refused,
                failed, unwritten >>

RunInit ==
  /\ phase = "idle"
  /\ depth \in 0..MaxDepthArg
  /\ ended = "no"
  /\ workdir = FALSE
  /\ allowed_domains = {}
  /\ queue = {}
  /\ inflight = {}
  /\ seen = {}
  /\ docs = << >>
  /\ response = "none"
  /\ archive = "none"
  /\ dispatched = [u \in AllURLs |-> 0]
  /\ refused = {}
  /\ failed = {}
  /\ unwritten = FALSE

\* visible_text_from_html has not been called
TextIdle ==
  /\ document_html = << >>
  /\ root = << >>
  /\ text = << >>
  /\ step = 0

\* make_pdf has not been called
ChunkIdle ==
  /\ paragraph = << >>
  /\ para = << >>
  /\ pieces = << >>
  /\ pc = "idle"

PureInit ==
  /\ TextIdle
  /\ ChunkIdle
  /\ urls = << >>
  /\ canon = << >>
  /\ stripped = << >>
  /\ restripped = << >>
  /\ applied = {}
  /\ seed = << >>
  /\ names = << >>

Init == RunInit /\ PureInit

\* the PDF of a parsed page (payload of src/scraper.py:467-474)
ContentDoc(u) == [url |-> u, title |-> "(page title)", text |-> <<"visible text">>]

\* the PDF of a failed start request (payload of src/scraper.py:421-428)
ErrorDoc(u, f) == [url |-> u, title |-> "(Fetch error)", text |-> <<"Failed to fetch", u, f>>]

\* make_pdf(pdf_path, payload) inside try/except: the file is written, or
\* make_pdf raises and only a log line is left
WritePdf(u, doc, ok) ==
  /\ docs' = IF ok THEN (FilenameOf[u] :> doc) @@ docs ELSE docs
  /\ unwritten' = (unwritten \/ ~ok)

\* scrape(), src/scraper.py:525-532, up to the crawl's first request:
\* mkdtemp, same_site_allowed_domains, start_requests (dont_filter=True, so
\* the duplicate filter neither checks nor records the start URL)
StartRun ==
  /\ phase = "idle"
  /\ phase' = "crawling"
  /\ workdir' = TRUE
  /\ allowed_domains' = StartAllowed
  /\ queue' = {Req(StartURL, 0, TRUE)}
  /\ UNCHANGED << depth, ended, inflight, seen, docs, response, archive, dispatched, refused, failed, unwritten >>
  /\ UNCHANGED pureVars

\* the scheduler's next request: one of highest priority
NextRequests == { r \in queue : \A o \in queue : o.priority <= r.priority }

\* the engine hands the next request to the downloader
Dispatch(r) ==
  /\ phase = "crawling"
  /\ r \in NextRequests
  /\ Cardinality(inflight) < CONCURRENT_REQUESTS
  /\ queue' = queue \ {r}
  /\ inflight' = inflight \cup {r}
  /\ dispatched' = IF r.retries = 0
                   THEN [dispatched EXCEPT ![r.url] = @ + 1]
                   ELSE dispatched
  /\ UNCHANGED << phase, depth, ended, workdir, allowed_domains, seen, docs, response, archive,
                  refused, failed, unwritten >>
  /\ UNCHANGED pureVars

\* DepthMiddleware with DEPTH_LIMIT = depth: a limit of 0 is no limit
DepthAllowed(d) == ~(depth # 0 /\ d > depth)

\* the requests parse() yields for the anchors ls of a page fetched by r, as
\* they arrive at the scheduler
Yielded(r, ls) ==
  { Req(CanonicalOf[l], r.depth + 1, FALSE) :
      l \in { x \in ls : AllowedOf[allowed_domains][x] /\ DepthAllowed(r.depth + 1) } }

\* Scheduler.enqueue_request for requests without dont_filter
Accepted(rs) == { q \in rs : FingerprintOf[q.url] \notin seen }

\* SiteToPDFSpider.parse, src/scraper.py:435-479, on the page of request r
\* showing the anchors ls
FetchOk(r, ls, ok) ==
  /\ phase = "crawling"
  /\ r \in inflight
  /\ inflight' = inflight \ {r}
  /\ queue' = queue \cup Accepted(Yielded(r, ls))
  /\ seen' = seen \cup { FingerprintOf[q.url] : q \in Yielded(r, ls) }
  /\ refused' = refused \cup { x \in ls : ~AllowedOf[allowed_domains][x] }
  /\ WritePdf(r.url, ContentDoc(r.url), ok)
  /\ UNCHANGED << phase, depth, ended, workdir, allowed_domains, response, archive, dispatched,
                  failed >>
  /\ UNCHANGED pureVars

\* a retry that never gives up: past RETRY_TIMES the request is re-scheduled
\* as it is
FetchRetryForever(r, f) ==
  /\ phase = "crawling"
  /\ r \in inflight
  /\ Retryable(f)
  /\ inflight' = inflight \ {r}
  /\ queue' = queue \cup
       {IF r.retries < RETRY_TIMES
        THEN [r EXCEPT !.retries = @ + 1, !.priority = @ + RetryPriorityAdjust]
        ELSE r}
  /\ UNCHANGED << phase, depth, ended, workdir, allowed_domains, seen, docs, response, archive,
                  dispatched, refused, failed, unwritten >>
  /\ UNCHANGED pureVars

\* RetryMiddleware: a retryable failure with retries left re-schedules the
\* request (dont_filter=True, priority lowered)
FetchRetry(r, f) ==
  /\ phase = "crawling"
  /\ r \in inflight
  /\ Retryable(f)
  /\ r.retries < RETRY_TIMES
  /\ inflight' = inflight \ {r}
  /\ queue' = queue \cup {[r EXCEPT !.retries = @ + 1, !.priority = @ + RetryPriorityAdjust]}
  /\ UNCHANGED << phase, depth, ended, workdir, allowed_domains, seen, docs, response, archive,
                  dispatched, refused, failed, unwritten >>
  /\ UNCHANGED pureVars

\* a final failure that ends the crawl as a whole
FetchFailAborts(r, f, ok) ==
  /\ phase = "crawling"
  /\ r \in inflight
  /\ ~(Retryable(f) /\ r.retries < RETRY_TIMES)
  /\ ok
  /\ inflight' = inflight \ {r}
  /\ failed' = failed \cup {IF r.first THEN "start" ELSE "followed"}
  /\ phase' = "aborted"
  /\ ended' = "aborted"
  /\ UNCHANGED << depth, workdir, allowed_domains, queue, seen, docs, unwritten, response,
                  archive, dispatched, refused >>
  /\ UNCHANGED pureVars

\* a fetch that finally fails: errback_first (src/scraper.py:416-433) for the
\* start request, no callback at all for a followed request
FetchFail(r, f, ok) ==
  /\ phase = "crawling"
  /\ r \in inflight
  /\ ~(Retryable(f) /\ r.retries < RETRY_TIMES)
  /\ inflight' = inflight \ {r}
  /\ failed' = failed \cup {IF r.first THEN "start" ELSE "followed"}
  /\ IF r.first
     THEN WritePdf(StartURL, ErrorDoc(StartURL, f), ok)
     ELSE ok /\ UNCHANGED << docs, unwritten >>
  /\ UNCHANGED << phase, depth, ended, workdir, allowed_domains, queue, seen, response, archive,
                  dispatched, refused >>
  /\ UNCHANGED pureVars

\* the crawl's deferred fires: no request waiting, none in flight
Drain ==
  /\ phase = "crawling"
  /\ queue = {}
  /\ inflight = {}
  /\ phase' = "drained"
  /\ ended' = "drained"
  /\ UNCHANGED << depth, workdir, allowed_domains, response, archive >>
  /\ UNCHANGED crawlVars
  /\ UNCHANGED pureVars

\* the crawl's deferred fails (the spider or the engine cannot be started):
\* crawl_to_pdfs raises before any request is sent
Abort ==
  /\ phase = "crawling"
  /\ queue = {Req(StartURL, 0, TRUE)}
  /\ inflight = {}
  /\ dispatched[StartURL] = 0
  /\ phase' = "aborted"
  /\ ended' = "aborted"
  /\ UNCHANGED << depth, workdir, allowed_domains, response, archive >>
  /\ UNCHANGED crawlVars
  /\ UNCHANGED pureVars

\* an endpoint that zips whatever the crawl left, without looking for PDFs
RespondAlwaysArchive ==
  /\ phase \in {"drained", "aborted"}
  /\ phase' = "responded"
  /\ IF phase = "aborted"
     THEN response' = "500" /\ archive' = "none"
     ELSE response' = "200" /\ archive' = DOMAIN docs
  /\ UNCHANGED << depth, ended, workdir, allowed_domains >>
  /\ UNCHANGED crawlVars
  /\ UNCHANGED pureVars

\* scrape(), src/scraper.py:533-548, after the crawl
Respond ==
  /\ phase \in {"drained", "aborted"}
  /\ phase' = "responded"
  /\ IF phase = "aborted"
     THEN response' = "500" /\ archive' = "none"
     ELSE IF DOMAIN docs = {}
          THEN response' = "504" /\ archive' = "none"
          ELSE response' = "200" /\ archive' = DOMAIN docs
  /\ UNCHANGED << depth, ended, workdir, allowed_domains >>
  /\ UNCHANGED crawlVars
  /\ UNCHANGED pureVars

\* the answer is sent; nothing of scrape() runs after it
Deliver ==
  /\ phase = "responded"
  /\ phase' = "done"
  /\ UNCHANGED << depth, ended, workdir, allowed_domains, response, archive >>
  /\ UNCHANGED crawlVars
  /\ UNCHANGED pureVars

Next ==
  \/ StartRun
  \/ \E r \in queue : Dispatch(r)
  \/ \E r \in inflight, ls \in LinkSets, ok \in BOOLEAN : FetchOk(r, ls, ok)
  \/ \E r \in inflight, f \in Failures : FetchRetry(r, f)
  \/ \E r \in inflight, f \in Failures, ok \in BOOLEAN : FetchFail(r, f, ok)
  \/ Drain
  \/ Abort
  \/ Respond
  \/ Deliver

Spec == Init /\ [][Next]_vars

(***************************************************************************)
(* Properties of a run of scrape (Spec)                                    *)
(***************************************************************************)
\* the requests the scheduler holds or the downloader works on
Frontier == queue \cup inflight

\* the URLs a PDF exists for
Documented == { u \in AllURLs : FilenameOf[u] \in DOMAIN docs }

\* C1: in a run of depth 1 or more, each canonical URL is dispatched for fetch
\* at most once (retries of that dispatch aside), the start URL included.
C1_DispatchedAtMostOnce == depth >= 1 => \A u \in AllURLs : dispatched[u] <= 1

\* C2: no request deeper than the depth bound of the run is ever enqueued or
\* fetched; with depth 0 the finished crawl leaves no PDF but the start URL's.
C2_DepthBound ==
  /\ \A r \in Frontier : r.depth <= depth
  /\ (depth = 0 /\ ended = "drained") => Documented \subseteq {StartURL}

\* the lowercased host of a URL
HostOf == [u \in AllURLs |-> Lower(Hostname(u))]

InScope(host) ==
  \E d \in allowed_domains : host = d \/ EndsWith(host, <<".">> \o d)

\* the start page showed the anchors to /p, to the subdomain and to the other
\* site, the crawl of depth 1 has ended, and every fetch and write succeeded
C3_Scenario ==
  /\ depth = 1
  /\ ended = "drained"
  /\ LinkOff \in refused
  /\ dispatched[CanonicalOf[LinkP]] = 1
  /\ dispatched[CanonicalOf[LinkSub]] = 1
  /\ failed = {}
  /\ ~unwritten

C4_DocumentPerDispatchedURL ==
  (ended = "drained" /\ ~unwritten) => \A u \in AllURLs : dispatched[u] > 0 => u \in Documented

\* C5: an aborted crawl is answered with the crawl-failure error (500) and no
\* archive, a drained crawl without PDFs with the nothing-retrievable error
\* (504) and no archive, a drained crawl with at least one PDF with the
\* archive of all PDFs; before the answer there is neither.
C5_OutcomeByTerminalState ==
  IF phase \in {"responded", "done"}
  THEN /\ ended = "aborted" => response = "500" /\ archive = "none"
       /\ (ended = "drained" /\ DOMAIN docs = {}) => response = "504" /\ archive = "none"
       /\ (ended = "drained" /\ DOMAIN docs # {}) => response = "200" /\ archive = DOMAIN docs
       /\ ended # "no"
  ELSE response = "none" /\ archive = "none"

\* C5 happens: a crawl that fetched the start page but wrote no PDF has been
\* answered with the nothing-retrievable error.
C5_Witness ==
  /\ phase = "done"
  /\ ended = "drained"
  /\ dispatched[StartURL] > 0
  /\ DOMAIN docs = {}
  /\ response = "504"

\* C6: a run that has ended has removed the temporary directory it created.
C6_WorkdirRemoved == phase = "done" => ~workdir

\* C7 as stated: a final fetch failure leaves the run a success; when the
\* fetch of the start URL fails at depth 0, the answer is an archive of
\* exactly one error PDF.
C7_FailureStillSuccess ==
  (phase = "done" /\ failed # {}) =>
     /\ response = "200"
     /\ ("start" \in failed /\ depth = 0) => Cardinality(DOMAIN docs) = 1

\* C7: a final fetch failure never aborts the crawl: it still drains and is
\* answered with the archive whenever at least one PDF was written; when the
\* fetch of the start URL fails at depth 0 and the error PDF can be written,
\* the archive holds exactly that error PDF, whose text names the failure.
C7_FailureNeverAborts ==
  /\ failed # {} => ended # "aborted" /\ phase # "aborted"
  /\ (phase = "done" /\ failed # {}) =>
        /\ ended = "drained"
        /\ response = (IF DOMAIN docs = {} THEN "504" ELSE "200")
  /\ (phase = "done" /\ "start" \in failed /\ depth = 0 /\ ~unwritten) =>
        /\ response = "200"
        /\ archive = {FilenameOf[StartURL]}
        /\ docs[FilenameOf[StartURL]].title = "(Fetch error)"
        /\ \E f \in Failures : docs[FilenameOf[StartURL]] = ErrorDoc(StartURL, f)

\* C7 happens: the fetch of the start URL failed at depth 0 and the run was
\* answered with the archive of the one error PDF.
C7_Witness ==
  /\ phase = "done"
  /\ depth = 0
  /\ "start" \in failed
  /\ response = "200"
  /\ DOMAIN docs = {FilenameOf[StartURL]}
  /\ docs[FilenameOf[StartURL]].title = "(Fetch error)"

\* scrape() under the reactor: a step that can be taken is taken in the end
\* (every fetch ends within DOWNLOAD_TIMEOUT, every callback returns)
SpecLive == Init /\ [][Next]_vars /\ WF_vars(Next)

\* C16: in a run of depth 1 or more, whenever the scheduler hands a request
\* to the downloader, no request of strictly smaller depth is waiting in the
\* queue, retried requests included.
C16_BreadthFirst ==
  [][\A r \in queue :
        (depth >= 1 /\ queue' = queue \ {r} /\ inflight' = inflight \cup {r}) =>
           \A o \in queue : o.depth >= r.depth]_vars

\* C17: every crawl ends: it drains (no request waiting, none in flight) or
\* it is aborted, whatever fetches fail and whatever pages link to each other.
C17_Terminates == <>(ended \in {"drained", "aborted"})

\* C17 happens: a crawl has drained although a fetch finally failed after all
\* its retries and a page linked back to the start URL.
C17_Witness ==
  /\ ended = "drained"
  /\ failed # {}
  /\ dispatched[StartURL] = 2
  /\ queue = {}
  /\ inflight = {}

(***************************************************************************)
(* The URL helpers on their own: two URLs are handed in, and the           *)
(* canonical forms and the repeated _strip_tracking are computed.          *)
(***************************************************************************)
\* raw name=value fields a query string is put together from
FieldUtm1 == <<"u", "t", "m", "_", "a", "=", "1">>
FieldUtm2 == <<"u", "t", "m", "_", "a", "=", "2">>
FieldGclid == <<"g", "c", "l", "i", "d", "=", "3">>
FieldGclidx == <<"g", "c", "l", "i", "d", "x", "=", "3">>
FieldId == <<"i", "d", "=", "7">>
FieldQ == <<"q", "=", "a", "%", "2", "0", "b">>

Fields == {FieldUtm1, FieldUtm2, FieldGclid, FieldGclidx, FieldId, FieldQ}

Fragments == { << >>, <<"#", "f">> }

\* longest query of the first URL and of the second URL, in fields
MaxParams == 2
MaxParams2 == 1

FieldLists(n) == UNION { [1..k -> Fields] : k \in 0..n }

PageURL == Http \o HostA \o <<"/", "p">>

MakeURL(fs, frag) ==
  PageURL \o (IF fs = << >> THEN << >> ELSE <<"?">> \o Join(fs, "&")) \o frag

InputURLs(n) == { MakeURL(fs, frag) : fs \in FieldLists(n), frag \in Fragments }

InitCanon ==
  /\ RunInit
  /\ ChunkIdle
  /\ TextIdle
  /\ depth = 0
  /\ urls \in InputURLs(MaxParams) \X InputURLs(MaxParams2)
  /\ canon = << >>
  /\ stripped = << >>
  /\ restripped = << >>
  /\ applied = {}
  /\ seed = << >>
  /\ names = << >>

\* src/scraper.py:451-452 on both URLs
Canonicalize ==
  /\ "canon" \notin applied
  /\ canon' = << Canonical(urls[1]), Canonical(urls[2]) >>
  /\ applied' = applied \cup {"canon"}
  /\ UNCHANGED << urls, stripped, restripped >>
  /\ UNCHANGED << runVars, scopeVars, nameVars, textVars, chunkVars >>

\* _strip_tracking on the first URL
StripOnce ==
  /\ "strip" \notin applied
  /\ stripped' = _strip_tracking(urls[1])
  /\ applied' = applied \cup {"strip"}
  /\ UNCHANGED << urls, canon, restripped >>
  /\ UNCHANGED << runVars, scopeVars, nameVars, textVars, chunkVars >>

\* _strip_tracking on its own result
StripAgain ==
  /\ "strip" \in applied
  /\ "restrip" \notin applied
  /\ restripped' = _strip_tracking(stripped)
  /\ applied' = applied \cup {"restrip"}
  /\ UNCHANGED << urls, canon, stripped >>
  /\ UNCHANGED << runVars, scopeVars, nameVars, textVars, chunkVars >>

NextCanon == Canonicalize \/ StripOnce \/ StripAgain

SpecCanon == InitCanon /\ [][NextCanon]_vars

(***************************************************************************)
(* Properties of the URL helpers (SpecCanon)                               *)
(***************************************************************************)
\* a tracking parameter as the specification names them: the name starts
\* with utm_ or is exactly fbclid, gclid or mc_eid
NamedTracking(n) ==
  \/ StartsWith(n, <<"u", "t", "m", "_">>)
  \/ n \in { <<"f", "b", "c", "l", "i", "d">>, <<"g", "c", "l", "i", "d">>,
             <<"m", "c", "_", "e", "i", "d">> }

\* the raw fields of a URL's query string
RawFieldsOf(u) == IF urlsplit(u).query = << >> THEN << >> ELSE Split(urlsplit(u).query, "&")

\* the raw fields that are no tracking parameter, in their order
RECURSIVE OtherFields(_)
OtherFields(fs) ==
  IF fs = << >> THEN << >>
  ELSE (IF NamedTracking(Partition(fs[1], "=")[1]) THEN << >> ELSE << fs[1] >>)
       \o OtherFields(Tail(fs))

\* two URLs that differ at most in their fragment and in tracking parameters
DifferOnlyInFragmentAndTracking(u1, u2) ==
  /\ urlsplit(u1).scheme = urlsplit(u2).scheme
  /\ urlsplit(u1).netloc = urlsplit(u2).netloc
  /\ urlsplit(u1).path = urlsplit(u2).path
  /\ OtherFields(RawFieldsOf(u1)) = OtherFields(RawFieldsOf(u2))

\* C8: two URLs that differ only in their fragment and/or in the presence or
\* value of tracking query parameters have the same canonical URL.
C8_SameCanonical ==
  ("canon" \in applied /\ DifferOnlyInFragmentAndTracking(urls[1], urls[2]))
     => canon[1] = canon[2]

\* C8 happens: two URLs with different fragments and different tracking
\* parameters, and a parameter that is kept, have been canonicalized.
C8_Witness ==
  /\ "canon" \in applied
  /\ DifferOnlyInFragmentAndTracking(urls[1], urls[2])
  /\ urlsplit(urls[1]).fragment # urlsplit(urls[2]).fragment
  /\ RawFieldsOf(urls[1]) # RawFieldsOf(urls[2])
  /\ OtherFields(RawFieldsOf(urls[1])) # << >>
  /\ canon[1] = canon[2]

\* the parsed pairs that are no tracking parameter, in their order
RECURSIVE OtherPairs(_)
OtherPairs(q) ==
  IF q = << >> THEN << >>
  ELSE (IF NamedTracking(q[1][1]) THEN << >> ELSE << q[1] >>) \o OtherPairs(Tail(q))

\* C9: _strip_tracking removes a query parameter if and only if its name
\* starts with utm_ or is exactly fbclid, gclid or mc_eid; every other
\* parameter is kept, in the original relative order.
C9_RemovesExactlyNamedTracking ==
  "strip" \in applied =>
     parse_qsl(urlsplit(stripped).query) = OtherPairs(parse_qsl(urlsplit(urls[1]).query))

\* C10: _strip_tracking applied to its own result returns that result unchanged.
C10_Idempotent == "restrip" \in applied => restripped = stripped

\* C10 happens: _strip_tracking changed the URL the first time (a parameter
\* removed or re-encoded, another one kept) and has been applied again.
C10_Witness ==
  /\ "restrip" \in applied
  /\ stripped # urls[1]
  /\ urlsplit(stripped).query # << >>
  /\ restripped = stripped

(***************************************************************************)
(* same_site_allowed_domains on its own: a base URL is handed in, the      *)
(* allowed domains are computed for the crawl, and the crawl ends.         *)
(***************************************************************************)
SeedSchemes == { Http, <<"h", "t", "t", "p", "s", ":", "/", "/">> }
SeedWww == { << >>, Www, <<"W", "W", "W", ".">> }
SeedLabels == { <<"s">>, <<"T">> }
SeedBases == { << <<"a">>, <<"i", "o">> >>, << <<"A">>, <<"I", "o">> >> }
SeedPorts == { << >>, <<":", "8">> }

\* most labels a base URL's host carries in front of its base
MaxSubLabels == 2

SeedSubs(n) == UNION { [1..k -> SeedLabels] : k \in 0..n }

Seeds(n) ==
  [scheme : SeedSchemes, www : SeedWww, subs : SeedSubs(n), base : SeedBases,
   port : SeedPorts]

\* the base URL a seed stands for
SeedURL(sd) == sd.scheme \o sd.www \o Join(sd.subs \o sd.base, ".") \o sd.port \o <<"/">>

InitScope ==
  /\ RunInit
  /\ ChunkIdle
  /\ TextIdle
  /\ depth = 1
  /\ canon = << >>
  /\ urls = << >>
  /\ stripped = << >>
  /\ restripped = << >>
  /\ applied = {}
  /\ names = << >>
  /\ seed \in Seeds(MaxSubLabels)

\* scrape() and crawl_to_pdfs up to src/scraper.py:490
ComputeScope ==
  /\ phase = "idle"
  /\ phase' = "crawling"
  /\ workdir' = TRUE
  /\ allowed_domains' = same_site_allowed_domains(SeedURL(seed))
  /\ UNCHANGED << depth, ended, response, archive >>
  /\ UNCHANGED << crawlVars, pureVars >>

\* the crawl of src/scraper.py:509-518 as far as the allowed domains go: it
\* hands them to the spider and ends
ScopedCrawlEnds ==
  /\ phase = "crawling"
  /\ phase' = "drained"
  /\ ended' = "drained"
  /\ UNCHANGED << depth, workdir, allowed_domains, response, archive >>
  /\ UNCHANGED << crawlVars, pureVars >>

NextScope == ComputeScope \/ ScopedCrawlEnds

SpecScope == InitScope /\ [][NextScope]_vars

(***************************************************************************)
(* Properties of same_site_allowed_domains (SpecScope)                     *)
(***************************************************************************)
\* the labels of the seed's host without a leading www., lowercased
NakedLabels(sd) == [i \in 1..Len(sd.subs \o sd.base) |-> Lower((sd.subs \o sd.base)[i])]

\* the seed's lowercased host, that host without a leading www., and the
\* www. variant of the latter
HostApexWww(sd) ==
  { Lower(sd.www) \o Join(NakedLabels(sd), "."),
    Join(NakedLabels(sd), "."),
    Www \o Join(NakedLabels(sd), ".") }

\* the last two labels of a host of more than two labels
LastTwoLabels(ls) ==
  IF Len(ls) > 2 THEN { ls[Len(ls) - 1] \o <<".">> \o ls[Len(ls)] } ELSE {}

\* C11 as stated: the allowed domains are exactly the seed's lowercased host,
\* that host without a leading www., and the www. variant of it, and they do
\* not change once computed.
C11_ExactlyHostApexWww == phase # "idle" => allowed_domains = HostApexWww(seed)

\* C11: the allowed domains are exactly the seed's lowercased host, that host
\* without a leading www., the www. variant of it, and, when the host without
\* www. has more than two labels, its last two labels; they do not change
\* once computed.
C11_ScopeSet ==
  phase # "idle" =>
     allowed_domains = HostApexWww(seed) \cup LastTwoLabels(NakedLabels(seed))

\* C11 happens: the allowed domains of a seed with an uppercase www. host of
\* more than two labels have been computed and the crawl has ended.
C11_Witness ==
  /\ phase = "drained"
  /\ seed.www = <<"W", "W", "W", ".">>
  /\ Len(seed.subs) > 0
  /\ <<"a", ".", "i", "o">> \in allowed_domains
  /\ <<"a", ".", "i", "o">> \notin HostApexWww(seed)

(***************************************************************************)
(* sanitize_filename_from_url on its own: two URLs are handed in and the   *)
(* PDF filename of each is computed, as parse() and errback_first do.      *)
(***************************************************************************)
InitName ==
  /\ RunInit
  /\ ChunkIdle
  /\ TextIdle
  /\ depth = 1
  /\ urls \in InputURLs(MaxParams2) \X InputURLs(MaxParams2)
  /\ canon = << >>
  /\ stripped = << >>
  /\ restripped = << >>
  /\ applied = {}
  /\ seed = << >>
  /\ names = << >>

\* src/scraper.py:465 and src/scraper.py:419 on both URLs
NameBoth ==
  /\ "name" \notin applied
  /\ names' = << sanitize_filename_from_url(urls[1]), sanitize_filename_from_url(urls[2]) >>
  /\ applied' = applied \cup {"name"}
  /\ UNCHANGED << urls, canon, stripped, restripped >>
  /\ UNCHANGED << runVars, scopeVars, textVars, chunkVars >>

NextName == NameBoth

SpecName == InitName /\ [][NextName]_vars

(***************************************************************************)
(* Properties of sanitize_filename_from_url (SpecName)                     *)
(***************************************************************************)
\* C12: two URLs with the same canonical form (they differ only by fragment
\* or by tracking query parameters) are given the same filename.
C12_FilenameOfCanonical ==
  ("name" \in applied /\ Canonical(urls[1]) = Canonical(urls[2])) => names[1] = names[2]

(***************************************************************************)
(* visible_text_from_html, src/scraper.py:160-236, on its own.  A page is  *)
(* one element of the body with its child elements; every element carries  *)
(* its own text, named by its place: 0 for the element, i for its i-th     *)
(* child.  No element is followed by tail text.                            *)
(***************************************************************************)
Tags == {"p", "div", "script", "style"}

StyleDisplayNone == <<"d", "i", "s", "p", "l", "a", "y", ":", "n", "o", "n", "e">>
StyleVisibilityHidden == <<"v", "i", "s", "i", "b", "i", "l", "i", "t", "y", ":", "h", "i", "d", "d", "e", "n">>
StyleColor == <<"c", "o", "l", "o", "r", ":", "r", "e", "d">>
ValueTrue == <<"t", "r", "u", "e">>
ValueFalse == <<"f", "a", "l", "s", "e">>

\* the attributes an element of a page may carry: none or one of these
AttrSets ==
  { {},
    {[name |-> "hidden", value |-> << >>]},
    {[name |-> "aria-hidden", value |-> ValueTrue]},
    {[name |-> "aria-hidden", value |-> ValueFalse]},
    {[name |-> "style", value |-> StyleDisplayNone]},
    {[name |-> "style", value |-> StyleVisibilityHidden]},
    {[name |-> "style", value |-> StyleColor]} }

\* most child elements of the page's element
MaxKids == 1

Element(tag, attrs, txt, kids) == [tag |-> tag, attrs |-> attrs, text |-> txt, kids |-> kids]

KidsOf(c) == [i \in DOMAIN c |-> Element(c[i].tag, c[i].attrs, <<i>>, << >>)]

KidSeqs(n) == { KidsOf(c) : c \in UNION { [1..k -> [tag : Tags, attrs : AttrSets]] : k \in 0..n } }

Pages(n) == { Element(t, a, <<0>>, ks) : t \in Tags, a \in AttrSets, ks \in KidSeqs(n) }

\* CLEANER: the elements Cleaner drops with their content (scripts=True,
\* style=True, kill_tags)
KilledTags ==
  {"script", "style", "noscript", "template", "svg", "canvas", "iframe", "picture",
   "source", "video", "audio", "track", "map", "area", "button", "input", "select",
   "textarea"}

\* the attributes Cleaner keeps (safe_attrs_only is left at its default, True):
\* lxml's safe_attrs, of which style, hidden and aria-hidden are no member
SafeAttrs == {"class", "id", "href", "title", "lang", "dir", "alt", "name", "width", "height"}

\* CLEANER on the attributes of one element: inline_style=True deletes the
\* style attribute, safe_attrs_only deletes what is not in safe_attrs
CleanAttrs(attrs) == { a \in attrs : a.name # "style" /\ a.name \in SafeAttrs }

\* CLEANER.clean_html on an element and on a sequence of sibling elements
RECURSIVE CleanElement(_)
RECURSIVE CleanKids(_)
CleanElement(e) == Element(e.tag, CleanAttrs(e.attrs), e.text, CleanKids(e.kids))

CleanKids(ks) ==
  IF ks = << >> THEN << >>
  ELSE (IF ks[1].tag \in KilledTags THEN << >> ELSE << CleanElement(ks[1]) >>)
       \o CleanKids(Tail(ks))

\* XPath contains(s, p)
Contains(s, p) == \E i \in 1..(Len(s) - Len(p) + 1) : SubSeq(s, i, i + Len(p) - 1) = p

\* HIDE_XPATH on one element
MatchesHide(e) ==
  \E a \in e.attrs :
     \/ a.name = "hidden"
     \/ a.name = "aria-hidden" /\ a.value = ValueTrue
     \/ a.name = "style" /\ Contains(a.value, StyleDisplayNone)
     \/ a.name = "style" /\ Contains(a.value, StyleVisibilityHidden)

\* src/scraper.py:195-198: every element HIDE_XPATH selects is taken out of
\* its parent
RECURSIVE HideKids(_)
HideKids(ks) ==
  IF ks = << >> THEN << >>
  ELSE (IF MatchesHide(ks[1]) THEN << >>
        ELSE << Element(ks[1].tag, ks[1].attrs, ks[1].text, HideKids(ks[1].kids)) >>)
       \o HideKids(Tail(ks))

\* root.text_content(): the text of an element, then that of its children
RECURSIVE TextContent(_)
RECURSIVE TextOfKids(_)
TextContent(e) == e.text \o TextOfKids(e.kids)

TextOfKids(ks) == IF ks = << >> THEN << >> ELSE TextContent(ks[1]) \o TextOfKids(Tail(ks))

InitText ==
  /\ RunInit
  /\ ChunkIdle
  /\ depth = 1
  /\ urls = << >>
  /\ canon = << >>
  /\ stripped = << >>
  /\ restripped = << >>
  /\ applied = {}
  /\ seed = << >>
  /\ names = << >>
  /\ document_html \in Pages(MaxKids)
  /\ root = << >>
  /\ text = << >>
  /\ step = 0

\* src/scraper.py:186: html.fromstring; the page's element under its body
ParseHtml ==
  /\ step = 0
  /\ root' = Element("body", {}, << >>, << document_html >>)
  /\ step' = 1
  /\ UNCHANGED << document_html, text >>
  /\ UNCHANGED << runVars, canonVars, scopeVars, nameVars, chunkVars >>

\* src/scraper.py:192: root = CLEANER.clean_html(root)
CleanHtml ==
  /\ step = 1
  /\ root' = CleanElement(root)
  /\ step' = 2
  /\ UNCHANGED << document_html, text >>
  /\ UNCHANGED << runVars, canonVars, scopeVars, nameVars, chunkVars >>

\* src/scraper.py:195-204: the hidden elements (and the decorative ones, of
\* which the cleaner has left none) are removed
RemoveHidden ==
  /\ step = 2
  /\ root' = Element(root.tag, root.attrs, root.text, HideKids(root.kids))
  /\ step' = 3
  /\ UNCHANGED << document_html, text >>
  /\ UNCHANGED << runVars, canonVars, scopeVars, nameVars, chunkVars >>

\* src/scraper.py:207-236: text_content(); the normalisation of whitespace and
\* the dropping of code-like lines leave the texts of a page as they are
ExtractText ==
  /\ step = 3
  /\ text' = TextContent(root)
  /\ step' = 4
  /\ UNCHANGED << document_html, root >>
  /\ UNCHANGED << runVars, canonVars, scopeVars, nameVars, chunkVars >>

NextText == ParseHtml \/ CleanHtml \/ RemoveHidden \/ ExtractText

SpecText == InitText /\ [][NextText]_vars

(***************************************************************************)
(* Properties of visible_text_from_html (SpecText)                         *)
(***************************************************************************)
\* an element the page marks as not to be shown: script, style, the hidden
\* attribute, aria-hidden="true", or an inline style with display:none or
\* visibility:hidden
Concealed(e) == e.tag \in {"script", "style"} \/ MatchesHide(e)

\* the texts of the page that lie inside a concealed element
ConcealedTexts(e) ==
  IF Concealed(e)
  THEN {e.text[1]} \cup { e.kids[i].text[1] : i \in DOMAIN e.kids }
  ELSE { e.kids[i].text[1] : i \in { j \in DOMAIN e.kids : Concealed(e.kids[j]) } }

\* the texts the returned text is made of
TextsOf(t) == { t[i] : i \in DOMAIN t }

\* C13: the returned text holds no text from inside a script or style element
\* nor from inside an element with the hidden attribute, aria-hidden="true",
\* or an inline style containing display:none or visibility:hidden.
C13_NoConcealedText == step = 4 => TextsOf(text) \cap ConcealedTexts(document_html) = {}

(***************************************************************************)
(* The chunking loop of make_pdf, src/scraper.py:308-323, on its own.  The *)
(* loop tells a space from any other character and counts; a paragraph is  *)
(* therefore kept as its runs of spaces and of other characters, each run  *)
(* with its length, no two neighbouring runs of the same kind.             *)
(***************************************************************************)
ChunkSize == 1600

Run(sp, n) == [sp |-> sp, n |-> n]

\* len(s)
RECURSIVE RLen(_)
RLen(rs) == IF rs = << >> THEN 0 ELSE rs[1].n + RLen(Tail(rs))

\* s[:n]
RECURSIVE Take(_, _)
Take(rs, n) ==
  IF n <= 0 \/ rs = << >> THEN << >>
  ELSE IF rs[1].n <= n THEN << rs[1] >> \o Take(Tail(rs), n - rs[1].n)
  ELSE << Run(rs[1].sp, n) >>

\* s[n:]
RECURSIVE Drop(_, _)
Drop(rs, n) ==
  IF rs = << >> THEN << >>
  ELSE IF n <= 0 THEN rs
  ELSE IF rs[1].n <= n THEN Drop(Tail(rs), n - rs[1].n)
  ELSE << Run(rs[1].sp, rs[1].n - n) >> \o Tail(rs)

\* s.rfind(" "): the index of the last space, counted from 0, or -1
RECURSIVE RFindSpace(_)
RFindSpace(rs) ==
  IF rs = << >> THEN 0 - 1
  ELSE IF rs[Len(rs)].sp THEN RLen(rs) - 1
  ELSE RFindSpace(SubSeq(rs, 1, Len(rs) - 1))

\* s.strip()
RECURSIVE Strip(_)
Strip(rs) ==
  IF rs = << >> THEN rs
  ELSE IF rs[1].sp THEN Strip(Tail(rs))
  ELSE IF rs[Len(rs)].sp THEN Strip(SubSeq(rs, 1, Len(rs) - 1))
  ELSE rs

\* the paragraphs handed in: words of these lengths, gaps of one or two
\* spaces between them, and possibly spaces in front
WordLens == {1, 800, 1599, 1600, 1601}
GapLens == {1, 2}
LeadLens == {0, 1}

\* most words of a paragraph
MaxWords == 3

\* the runs of a paragraph of the words ws with the gaps gs between them
ParaOf(lead, ws, gs) ==
  (IF lead = 0 THEN << >> ELSE << Run(TRUE, lead) >>)
  \o [i \in 1..(2 * Len(ws) - 1) |->
        IF i % 2 = 1 THEN Run(FALSE, ws[(i + 1) \div 2]) ELSE Run(TRUE, gs[i \div 2])]

Paragraphs(n) ==
  UNION { { ParaOf(lead, ws, gs) :
              lead \in LeadLens, ws \in [1..k -> WordLens], gs \in [1..(k - 1) -> GapLens] } :
          k \in 1..n }

InitChunk ==
  /\ RunInit
  /\ TextIdle
  /\ depth = 1
  /\ urls = << >>
  /\ canon = << >>
  /\ stripped = << >>
  /\ restripped = << >>
  /\ applied = {}
  /\ seed = << >>
  /\ names = << >>
  /\ paragraph \in Paragraphs(MaxWords)
  /\ para = << >>
  /\ pieces = << >>
  /\ pc = "strip"

\* src/scraper.py:309: para = para.strip()
StripPara ==
  /\ pc = "strip"
  /\ para' = Strip(paragraph)
  /\ pc' = "loop"
  /\ UNCHANGED << paragraph, pieces >>
  /\ UNCHANGED << runVars, canonVars, scopeVars, nameVars, textVars >>

\* a loop body that renders what is left as one piece
ChunkAtWhole(p, cut) == << p, << >> >>

\* a loop body that goes on two characters after the cut
ChunkAtSkipping(p, cut) ==
  IF cut = 0 - 1 \/ RLen(p) <= ChunkSize
  THEN << p, << >> >>
  ELSE << Take(p, cut), Drop(p, cut + 2) >>

\* src/scraper.py:316-321: <<piece, para>> for the cut found
ChunkAt(p, cut) ==
  IF cut = 0 - 1 \/ RLen(p) <= ChunkSize
  THEN << p, << >> >>
  ELSE << Take(p, cut), Drop(p, cut + 1) >>

\* src/scraper.py:314-321
ChunkOf(p) == ChunkAt(p, RFindSpace(Take(p, ChunkSize)))

\* one pass of the while loop, src/scraper.py:313-323
ChunkStep ==
  /\ pc = "loop"
  /\ para # << >>
  /\ pieces' = Append(pieces, ChunkOf(para)[1])
  /\ para' = ChunkOf(para)[2]
  /\ UNCHANGED << paragraph, pc >>
  /\ UNCHANGED << runVars, canonVars, scopeVars, nameVars, textVars >>

\* the while loop ends: nothing is left
ChunkEnd ==
  /\ pc = "loop"
  /\ para = << >>
  /\ pc' = "done"
  /\ UNCHANGED << paragraph, para, pieces >>
  /\ UNCHANGED << runVars, canonVars, scopeVars, nameVars, textVars >>

NextChunk == StripPara \/ ChunkStep \/ ChunkEnd

SpecChunk == InitChunk /\ [][NextChunk]_vars

(***************************************************************************)
(* Properties of the chunking loop (SpecChunk)                             *)
(***************************************************************************)
\* C14 as stated: every rendered piece has at most 1,600 characters.
C14_EveryPieceWithinLimit == \A i \in DOMAIN pieces : RLen(pieces[i]) <= ChunkSize

\* C14: every rendered piece has at most 1,600 characters, unless the first
\* 1,600 characters of what was left of the paragraph held no space: then all
\* that was left is rendered as one piece, the last one.
C14_PieceWithinLimitOrNoSpace ==
  \A i \in DOMAIN pieces :
     RLen(pieces[i]) > ChunkSize =>
        /\ i = Len(pieces)
        /\ para = << >>
        /\ ~pieces[i][1].sp
        /\ pieces[i][1].n >= ChunkSize

\* C14 happens: a paragraph was cut at a space into a first piece within the
\* limit, what was left had no space in its first 1,600 characters and was
\* rendered whole, and the loop has ended.
C14_Witness ==
  /\ pc = "done"
  /\ Len(pieces) >= 2
  /\ RLen(pieces[1]) <= ChunkSize
  /\ RLen(pieces[1]) > 1
  /\ RLen(pieces[Len(pieces)]) > ChunkSize

\* two strings one after the other
Cat(a, b) ==
  IF a = << >> THEN b
  ELSE IF b = << >> THEN a
  ELSE IF a[Len(a)].sp = b[1].sp
       THEN SubSeq(a, 1, Len(a) - 1) \o << Run(b[1].sp, a[Len(a)].n + b[1].n) >> \o Tail(b)
       ELSE a \o b

\* "".join(ps)
RECURSIVE CatAll(_)
CatAll(ps) == IF ps = << >> THEN << >> ELSE Cat(ps[1], CatAll(Tail(ps)))

\* " ".join(ps)
RECURSIVE JoinWithSpace(_)
JoinWithSpace(ps) ==
  IF Len(ps) <= 1 THEN CatAll(ps)
  ELSE Cat(ps[1], Cat(<< Run(TRUE, 1) >>, JoinWithSpace(Tail(ps))))

\* C15 as stated: the pieces, one after the other, are the stripped paragraph.
C15_ConcatenationRebuilds == pc = "done" => CatAll(pieces) = Strip(paragraph)

\* C15: the pieces, joined by one space each, are the stripped paragraph:
\* only the space at each cut is left out.
C15_JoinedBySpaceRebuilds ==
  /\ pc = "done" => JoinWithSpace(pieces) = Strip(paragraph)
  /\ (pc = "loop" /\ para # << >>) => JoinWithSpace(Append(pieces, para)) = Strip(paragraph)

\* C15 happens: a paragraph was cut twice or more, and the loop has ended.
C15_Witness ==
  /\ pc = "done"
  /\ Len(pieces) >= 3
  /\ CatAll(pieces) # Strip(paragraph)
  /\ JoinWithSpace(pieces) = Strip(paragraph)

====
